---- MODULE Spec2Model ----
(***************************************************************************)
(* The ElasticSearch adapter class of src/ElasticSearch/__init__.py, as a  *)
(* state machine: one client object talking to one remote engine.  Every   *)
(* method is an operator over an execution record (handle, engine, the     *)
(* requests issued so far, the log lines written so far) that yields the   *)
(* execution after the call, whether an exception left the method, and the *)
(* value returned.  An engine call fails when it is the f-th request of    *)
(* the running operation; f = 0 lets every request succeed.                *)
(***************************************************************************)
EXTENDS Integers, Sequences, FiniteSets, TLC

VARIABLES
    phase,      \* "new" | "alive" | "broken" (constructor raised) | "gone"
    es,         \* the instance attribute __es: "unset" | "set" | "deleted"
    idx,        \* the remote engine: index name -> index state
    written,    \* index name -> documents stored with True since the last wipe
    last        \* the operation that ran last, with what it saw and did

vars == <<phase, es, idx, written, last>>

----------------------------------------------------------------------------
\* Bounds of the model.
MaxDocs == 1
EarlyClock == 1600
LateClock == 1900

\* size=10000, the default of query().
DefaultSize == 10000

IndexNames == {"data", "logs"}

\* What datetime.now() may read, in microseconds since the epoch.
Clocks == {EarlyClock, LateClock}

\* Python values.
True == [t |-> "bool", v |-> TRUE]
False == [t |-> "bool", v |-> FALSE]
None == [t |-> "None"]
PyBool(b) == [t |-> "bool", v |-> b]
PyList(h) == [t |-> "list", v |-> h]
PyDict(d) == [t |-> "dict", v |-> d]
EmptyDict == [t |-> "dict"]

\* Documents handed to store() and put(): one without and one with a
\* timestamp field of its own.
Doc1 == [id |-> 1]
Doc2 == [id |-> 2, timestamp |-> 7]
Docs == {Doc1, Doc2}

\* Queries handed to query() and get().
MatchAll == [match_all |-> EmptyDict]
MatchId == [match |-> [id |-> [query |-> 1]]]
Queries == {MatchAll, MatchId}

\* The ways query() is called: with raw and size left at their defaults, with
\* raw=True, and with a size of 1.
QueryCalls ==
    {[query |-> MatchAll, raw |-> FALSE, size |-> DefaultSize],
     [query |-> MatchAll, raw |-> TRUE, size |-> DefaultSize],
     [query |-> MatchAll, raw |-> FALSE, size |-> 1],
     [query |-> MatchId, raw |-> FALSE, size |-> 1]}

\* Index definitions handed to create_index().
UserSettings == [number_of_shards |-> 1, number_of_replicas |-> 0]
UserMappings == [properties |-> [id |-> [type |-> "keyword"]]]

\* The definition setup() asks for.
SetupSettings == [number_of_shards |-> 2, number_of_replicas |-> 2]
SetupMappings ==
    [properties |->
        [id |-> [type |-> "long"],
         timestamp |-> [type |-> "date",
                        format |-> "yyyy-MM-dd HH:mm:ss||yyyy-MM-dd||epoch_millis"]]]

\* What the engine gives an index it creates on the first write to it.
AutoSettings == [number_of_shards |-> 1, number_of_replicas |-> 1]
AutoMappings == [dynamic |-> TRUE]

----------------------------------------------------------------------------
\* to_es_timestamp: int(datetime_obj.timestamp() * 1000), the clock being
\* kept in microseconds here.
ToEsTimestampSeconds(us) == us \div 1000000
to_es_timestamp(us) == us \div 1000

----------------------------------------------------------------------------
\* The engine.  An index holds the documents a search can see (docs), the
\* documents written and not yet refreshed (pending), and a number of
\* documents of other writers (others).
Absent == [present |-> FALSE, settings |-> EmptyDict, mappings |-> EmptyDict,
           docs |-> {}, pending |-> {}, others |-> 0]
NewIndex(settings, mappings) ==
    [present |-> TRUE, settings |-> settings, mappings |-> mappings,
     docs |-> {}, pending |-> {}, others |-> 0]

Min(a, b) == IF a < b THEN a ELSE b

\* match_all selects every document, and so does the empty query where the
\* engine accepts it; the match query selects the documents with id 1.
Matches(q, d) ==
    IF q = MatchId THEN "id" \in DOMAIN d /\ d["id"] = 1 ELSE TRUE

\* The hits of this client's documents a search of index ix may answer with:
\* h is drawn from the visible documents that match, the answer holds
\* min(size, total) hits, and the rest of it are documents of other writers.
ValidHits(ix, q, size, h) ==
    LET mine == {d \in ix.docs : Matches(q, d)}
        theirs == IF q = MatchId THEN 0 ELSE ix.others
        n == Min(size, Cardinality(mine) + theirs)
    IN  /\ h \subseteq mine
        /\ Cardinality(h) <= n
        /\ n - Cardinality(h) <= theirs

\* The hits the engine answers a search of index ix with.  skip names the
\* documents it leaves out when it can: every answer ValidHits allows is the
\* answer for some skip.
Hits(ix, q, size, skip) ==
    LET mine == {d \in ix.docs : Matches(q, d)}
    IN  IF ValidHits(ix, q, size, mine \ skip) THEN mine \ skip
        ELSE CHOOSE h \in SUBSET mine : ValidHits(ix, q, size, h)

----------------------------------------------------------------------------
\* Executions.
Exec(h, e) ==
    [es |-> h, idx |-> e, reqs |-> <<>>, answers |-> <<>>, logs |-> <<>>]
Raise(st) == [st |-> st, exc |-> TRUE, ret |-> None]
Return(st, v) == [st |-> st, exc |-> FALSE, ret |-> v]
Log(st, level) == [st EXCEPT !.logs = Append(@, level)]
Sent(st, call, index, arg) ==
    [st EXCEPT !.reqs = Append(@, [call |-> call, index |-> index, arg |-> arg])]
Failing(st, f) == Len(st.reqs) + 1 = f
Answered(st, v) == Return([st EXCEPT !.answers = Append(@, v)], v)

\* self.client(): reading __es raises AttributeError unless it was assigned.
HasClient(st) == st.es = "set"

----------------------------------------------------------------------------
\* The calls of the wrapped client library, as this class issues them.  Each
\* one reads the handle first (AttributeError without it), then sends one
\* request, which fails when it is the f-th of the operation: the call
\* raises, and the engine is left as it was.

\* self.client().ping(): the library answers False when the request fails.
ClientPing(st, f, answer) ==
    IF ~HasClient(st) THEN Raise(st)
    ELSE LET s == Sent(st, "ping", "", EmptyDict)
         IN  Answered(s, IF Failing(st, f) THEN FALSE ELSE answer)

\* self.__es.info()
ClientInfo(st, f) ==
    IF ~HasClient(st) THEN Raise(st)
    ELSE LET s == Sent(st, "info", "", EmptyDict)
         IN  IF Failing(st, f) THEN Raise(s) ELSE Answered(s, EmptyDict)

\* self.indices().exists(index=name)
IndicesExists(st, name, f) ==
    IF ~HasClient(st) THEN Raise(st)
    ELSE LET s == Sent(st, "exists", name, EmptyDict)
         IN  IF Failing(st, f) THEN Raise(s)
             ELSE Answered(s, st.idx[name].present)

\* self.indices().create(index=name, settings=settings, mappings=mappings);
\* the engine refuses to create an index that exists.
IndicesCreate(st, name, settings, mappings, f) ==
    IF ~HasClient(st) THEN Raise(st)
    ELSE LET s == Sent(st, "create", name,
                       [settings |-> settings, mappings |-> mappings])
         IN  IF Failing(st, f) \/ st.idx[name].present THEN Raise(s)
             ELSE Answered([s EXCEPT !.idx[name] = NewIndex(settings, mappings)],
                           [acknowledged |-> TRUE])

\* self.indices().delete(index=name); the engine refuses to delete an index
\* that is missing, and leaves the index in place when it does not
\* acknowledge.
IndicesDelete(st, name, f, ack) ==
    IF ~HasClient(st) THEN Raise(st)
    ELSE LET s == Sent(st, "delete", name, EmptyDict)
         IN  IF Failing(st, f) \/ ~st.idx[name].present THEN Raise(s)
             ELSE IF ack
                  THEN Answered([s EXCEPT !.idx[name] = Absent],
                                [acknowledged |-> TRUE])
                  ELSE Answered(s, [acknowledged |-> FALSE])

\* self.client().delete_by_query(index=name, query=...): the engine deletes
\* what a search of the index sees.
ClientDeleteByQuery(st, name, query, f) ==
    IF ~HasClient(st) THEN Raise(st)
    ELSE LET s == Sent(st, "delete_by_query", name, [query |-> query])
         IN  IF Failing(st, f) \/ ~st.idx[name].present THEN Raise(s)
             ELSE Answered([s EXCEPT !.idx[name].docs = {},
                                     !.idx[name].others = 0],
                           EmptyDict)

\* self.client().search(index=index, body=body, size=size): the answer holds
\* the hits, or (wellformed = FALSE) no hit list at all.
ClientSearch(st, index, body, size, f, wellformed, skip) ==
    IF ~HasClient(st) THEN Raise(st)
    ELSE LET s == Sent(st, "search", index, [body |-> body, size |-> size])
         IN  IF Failing(st, f) \/ ~st.idx[index].present THEN Raise(s)
             ELSE Answered(s, [wellformed |-> wellformed,
                               hits |-> Hits(st.idx[index], body.query, size, skip)])

\* self.client().index(index=index, body=body): the engine creates a missing
\* index on the first write; the document is searchable after a refresh.
ClientIndex(st, index, body, f) ==
    IF ~HasClient(st) THEN Raise(st)
    ELSE LET s == Sent(st, "index", index, [body |-> body])
             ix == IF st.idx[index].present THEN st.idx[index]
                   ELSE NewIndex(AutoSettings, AutoMappings)
         IN  IF Failing(st, f) THEN Raise(s)
             ELSE Answered([s EXCEPT !.idx[index] =
                                 [ix EXCEPT !.pending = @ \cup {body}]],
                           [result |-> "created"])

\* self.client().close()
ClientClose(st, f) ==
    IF ~HasClient(st) THEN Raise(st)
    ELSE LET s == Sent(st, "close", "", EmptyDict)
         IN  IF Failing(st, f) THEN Raise(s) ELSE Answered(s, None)

----------------------------------------------------------------------------
\* The methods of the class.

ping(st, f, answer) ==
    LET r == ClientPing(st, f, answer)
    IN  IF r.exc THEN r ELSE Return(r.st, PyBool(r.ret))

check_index(st, name, f) ==
    LET r == IndicesExists(st, name, f)
    IN  IF r.exc THEN r ELSE Return(r.st, PyBool(r.ret))

CreateIndexUnchecked(st, name, settings, mappings, f) ==
    LET r == IndicesCreate(st, name, settings, mappings, f)
    IN  IF r.exc
        THEN Return(Log(Log(r.st, "exception"), "exception"), False)
        ELSE Return(r.st, True)
create_index(st, name, settings, mappings, f) ==
    LET c == check_index(st, name, f)
    IN  IF c.exc THEN c
        ELSE IF c.ret = True THEN Return(c.st, False)
        ELSE LET r == IndicesCreate(c.st, name, settings, mappings, f)
             IN  IF r.exc
                 THEN Return(Log(Log(r.st, "exception"), "exception"), False)
                 ELSE Return(r.st, True)

empty_index(st, name, f) ==
    LET r == ClientDeleteByQuery(st, name, MatchAll, f)
    IN  IF r.exc THEN Return(Log(r.st, "exception"), False)
        ELSE Return(Log(r.st, "info"), True)

DeleteIndexIgnoringAck(st, name, f, ack) ==
    LET e == IndicesExists(st, name, f)
    IN  IF e.exc THEN e
        ELSE IF ~e.ret THEN Return(e.st, False)
        ELSE LET r == IndicesDelete(e.st, name, f, ack)
             IN  IF r.exc THEN Return(Log(r.st, "exception"), False)
                 ELSE Return(Log(r.st, "info"), True)
delete_index(st, name, f, ack) ==
    LET e == IndicesExists(st, name, f)
    IN  IF e.exc THEN e
        ELSE IF ~e.ret THEN Return(e.st, False)
        ELSE LET r == IndicesDelete(e.st, name, f, ack)
             IN  IF r.exc THEN Return(Log(r.st, "exception"), False)
                 ELSE IF r.ret.acknowledged THEN Return(Log(r.st, "info"), True)
                 ELSE Return(Log(r.st, "error"), False)

QueryDefaultIndex(st, index, q, raw, size, f, wellformed, skip) ==
    LET r == ClientSearch(st, "data", [query |-> q], size, f, wellformed, skip)
    IN  IF r.exc THEN Return(Log(r.st, "exception"), None)
        ELSE IF raw THEN Return(r.st, PyDict(r.ret))
        ELSE IF r.ret.wellformed THEN Return(r.st, PyList(r.ret.hits))
        ELSE Return(Log(r.st, "exception"), None)
QueryAlwaysRaw(st, index, q, raw, size, f, wellformed, skip) ==
    LET r == ClientSearch(st, index, [query |-> q], size, f, wellformed, skip)
    IN  IF r.exc THEN Return(Log(r.st, "exception"), None)
        ELSE Return(r.st, PyDict(r.ret))
query(st, index, q, raw, size, f, wellformed, skip) ==
    LET r == ClientSearch(st, index, [query |-> q], size, f, wellformed, skip)
    IN  IF r.exc THEN Return(Log(r.st, "exception"), None)
        ELSE IF raw THEN Return(r.st, PyDict(r.ret))
        ELSE IF r.ret.wellformed THEN Return(r.st, PyList(r.ret.hits))
        ELSE Return(Log(r.st, "exception"), None)

store(st, index, body, f) ==
    LET r == ClientIndex(st, index, body, f)
    IN  IF r.exc THEN Return(Log(r.st, "exception"), False)
        ELSE Return(r.st, True)

SetupAlwaysCreates(st, f) ==
    create_index(st, "data", SetupSettings, SetupMappings, f)
setup(st, f) ==
    LET c == check_index(st, "data", f)
    IN  IF c.exc THEN c
        ELSE IF c.ret = False
        THEN create_index(c.st, "data", SetupSettings, SetupMappings, f)
        ELSE Return(c.st, True)

get(st, q, f, wellformed, skip) ==
    query(st, "data", IF q = None THEN EmptyDict ELSE q, FALSE, DefaultSize,
          f, wellformed, skip)

\* body['timestamp'] = to_es_timestamp(datetime.now())
Stamp(body, clock) ==
    [k \in DOMAIN body \cup {"timestamp"} |->
        IF k = "timestamp" THEN to_es_timestamp(clock) ELSE body[k]]
PutWithoutStamp(st, body, clock, f) == store(st, "data", body, f)
put(st, body, clock, f) == store(st, "data", Stamp(body, clock), f)

\* The constructor.  tls: the TLS context could be built; made: the library
\* built the handle.
__init__(st, tls, made, f) ==
    IF ~tls THEN Raise(st)
    ELSE IF ~made THEN Return(Log(st, "exception"), None)
    ELSE LET i == ClientInfo([st EXCEPT !.es = "set"], f)
         IN  IF i.exc THEN Return(Log(i.st, "exception"), None)
             ELSE LET r == setup(Log(i.st, "info"), f)
                  IN  IF r.exc THEN Return(Log(r.st, "exception"), None)
                      ELSE Return(r.st, None)

\* The destructor.  del self.__logger raises AttributeError at the end: the
\* logger is an attribute of the class, not of the instance.
DelAlwaysCloses(st, f, answer) ==
    LET c == ClientClose(st, f)
    IN  IF c.exc THEN c ELSE Raise([c.st EXCEPT !.es = "deleted"])
__del__(st, f, answer) ==
    LET p == ping(st, f, answer)
    IN  IF p.exc THEN p
        ELSE LET c == IF p.ret = True THEN ClientClose(p.st, f)
                      ELSE Return(p.st, None)
             IN  IF c.exc THEN c
                 ELSE Raise([c.st EXCEPT !.es = "deleted"])

----------------------------------------------------------------------------
\* The state machine.

\* What an operation is recorded with: its arguments, its outcome, the
\* requests it issued, the answers it got, the log lines it wrote, the index
\* it names as the call found it (the default index when
\* it names none), whether it left the engine as it found it, the clock and
\* the handle at the call.
NoArgs == [index |-> "data"]
Target(args) == args.index
Ran(op, args, clock, r) ==
    [op |-> op, args |-> args, exc |-> r.exc, ret |-> r.ret,
     reqs |-> r.st.reqs, answers |-> r.st.answers, logs |-> r.st.logs,
     ix |-> idx[Target(args)], unchanged |-> (r.st.idx = idx),
     clock |-> clock, had |-> es]

\* The documents of this client the engine holds, index by index.
Held(ix) == ix.docs \cup ix.pending
AllHeld == UNION {{<<n, d>> : d \in Held(idx[n])} : n \in IndexNames}

\* The shapes and the omissions of the engine's answer to a search that is
\* the first request of an operation (one stands for all when the search
\* fails, one omission when the answer has room for every document).
Shapes(f) == IF f = 1 THEN {TRUE} ELSE BOOLEAN
Skips(ix, size, f) ==
    IF f = 1 \/ ~ix.present \/ Cardinality(ix.docs) + ix.others <= size
    THEN {{}} ELSE SUBSET ix.docs

Init ==
    /\ phase = "new"
    /\ es = "unset"
    /\ \E data \in {Absent} \cup
                     {[NewIndex(SetupSettings, SetupMappings)
                         EXCEPT !.others = n] : n \in {0, DefaultSize}} :
         idx = [n \in IndexNames |-> IF n = "data" THEN data ELSE Absent]
    /\ written = [n \in IndexNames |-> {}]
    /\ last = [op |-> "none", args |-> NoArgs, exc |-> FALSE, ret |-> None,
               reqs |-> <<>>, answers |-> <<>>, logs |-> <<>>,
               ix |-> idx["data"], unchanged |-> TRUE,
               clock |-> 0, had |-> es]

Finish(op, args, r) ==
    /\ es' = r.st.es
    /\ idx' = r.st.idx
    /\ last' = Ran(op, args, 0, r)

Construct ==
    /\ phase = "new"
    /\ \E tls \in BOOLEAN, made \in BOOLEAN, f \in 0..4 :
         LET r == __init__(Exec(es, idx), tls, made, f)
         IN  /\ Finish("__init__", NoArgs, r)
             /\ phase' = IF r.exc THEN "broken" ELSE "alive"
    /\ UNCHANGED written

Destroy ==
    /\ phase \in {"alive", "broken"}
    /\ \E f \in 0..2, answer \in BOOLEAN :
         Finish("__del__", NoArgs, __del__(Exec(es, idx), f, answer))
    /\ phase' = "gone"
    /\ UNCHANGED written

Ping ==
    /\ phase = "alive"
    /\ \E f \in 0..1, answer \in BOOLEAN :
         Finish("ping", NoArgs, ping(Exec(es, idx), f, answer))
    /\ UNCHANGED <<phase, written>>

CheckIndex ==
    /\ phase = "alive"
    /\ \E name \in IndexNames, f \in 0..1 :
         Finish("check_index", [index |-> name], check_index(Exec(es, idx), name, f))
    /\ UNCHANGED <<phase, written>>

CreateIndex ==
    /\ phase = "alive"
    /\ \E name \in IndexNames, f \in 0..2 :
         Finish("create_index", [index |-> name],
                create_index(Exec(es, idx), name, UserSettings, UserMappings, f))
    /\ UNCHANGED <<phase, written>>

EmptyIndex ==
    /\ phase = "alive"
    /\ \E name \in IndexNames, f \in 0..1 :
         LET r == empty_index(Exec(es, idx), name, f)
         IN  /\ Finish("empty_index", [index |-> name], r)
             /\ written' = IF r.ret = True THEN [written EXCEPT ![name] = {}]
                           ELSE written
    /\ UNCHANGED phase

DeleteIndex ==
    /\ phase = "alive"
    /\ \E name \in IndexNames, f \in 0..2 :
       \E ack \in (IF idx[name].present THEN BOOLEAN ELSE {TRUE}) :
         LET r == delete_index(Exec(es, idx), name, f, ack)
         IN  /\ Finish("delete_index", [index |-> name], r)
             /\ written' = IF r.ret = True THEN [written EXCEPT ![name] = {}]
                           ELSE written
    /\ UNCHANGED phase

Query ==
    /\ phase = "alive"
    /\ \E index \in IndexNames, c \in QueryCalls, f \in 0..1 :
       \E wellformed \in Shapes(f), skip \in Skips(idx[index], c.size, f) :
         Finish("query",
                [index |-> index, query |-> c.query, raw |-> c.raw,
                 size |-> c.size],
                query(Exec(es, idx), index, c.query, c.raw, c.size, f,
                      wellformed, skip))
    /\ UNCHANGED <<phase, written>>

Store ==
    /\ phase = "alive"
    /\ \E index \in IndexNames, body \in Docs, f \in 0..1 :
         /\ Cardinality(AllHeld) < MaxDocs
         /\ LET r == store(Exec(es, idx), index, body, f)
            IN  /\ Finish("store", [index |-> index, body |-> body], r)
                /\ written' = IF r.ret = True
                              THEN [written EXCEPT ![index] = @ \cup {body}]
                              ELSE written
    /\ UNCHANGED phase

Setup ==
    /\ phase = "alive"
    /\ \E f \in 0..3 : Finish("setup", NoArgs, setup(Exec(es, idx), f))
    /\ UNCHANGED <<phase, written>>

Get ==
    /\ phase = "alive"
    /\ \E q \in Queries \cup {None}, f \in 0..1 :
       \E wellformed \in Shapes(f), skip \in Skips(idx["data"], DefaultSize, f) :
         Finish("get", [index |-> "data", query |-> q],
                get(Exec(es, idx), q, f, wellformed, skip))
    /\ UNCHANGED <<phase, written>>

Put ==
    /\ phase = "alive"
    /\ \E body \in Docs, clock \in Clocks, f \in 0..1 :
         /\ Cardinality(AllHeld) < MaxDocs
         /\ LET r == put(Exec(es, idx), body, clock, f)
            IN  /\ es' = r.st.es
                /\ idx' = r.st.idx
                /\ last' = Ran("put", [index |-> "data", body |-> body], clock, r)
                /\ written' = IF r.ret = True
                              THEN [written EXCEPT
                                      !["data"] = @ \cup {Stamp(body, clock)}]
                              ELSE written
    /\ UNCHANGED phase

\* The engine refreshes an index: what was written becomes searchable.
Refresh ==
    /\ \E name \in IndexNames :
         /\ idx[name].pending # {}
         /\ idx' = [idx EXCEPT ![name].docs = @ \cup idx[name].pending,
                               ![name].pending = {}]
    /\ UNCHANGED <<phase, es, written, last>>

\* The life of the client and of the indices.
Next ==
    \/ Construct
    \/ Destroy
    \/ Ping
    \/ CheckIndex
    \/ CreateIndex
    \/ EmptyIndex
    \/ DeleteIndex
    \/ Setup
    \/ Store

Spec == Init /\ [][Next]_vars

\* Writing and searching documents.
DocNext ==
    \/ Construct
    \/ Store
    \/ Put
    \/ Query
    \/ Get
    \/ EmptyIndex
    \/ DeleteIndex
    \/ Refresh

DocSpec == Init /\ [][DocNext]_vars

----------------------------------------------------------------------------
\* Reading the record of the last operation.
Calls(c) == Cardinality({i \in 1..Len(last.reqs) : last.reqs[i].call = c})
Requested(c) == Calls(c) > 0
\* A request of the operation raised: it got no answer.
EngineFailed == Len(last.answers) < Len(last.reqs)
\* The k-th request was answered.
AnsweredAt(k) == Len(last.answers) >= k
Falsy(v) == v = False \/ v = None
Logged(level) == \E i \in 1..Len(last.logs) : last.logs[i] = level
PublicOps ==
    {"ping", "check_index", "create_index", "empty_index", "delete_index",
     "query", "store", "setup", "get", "put"}

----------------------------------------------------------------------------
\* C1: constructing the client never lets an exception reach the caller,
\* whatever fails while the constructor runs (the TLS context included); a
\* failure is logged; and when the probe is the request that fails, no
\* request to create the default index is issued.
C1_ConstructorNeverRaises ==
    last.op = "__init__" =>
        /\ ~last.exc
        /\ (EngineFailed => Logged("exception"))
        /\ (EngineFailed /\ Len(last.reqs) = 1 => ~Requested("create"))

\* C2: no public operation lets a failure of an engine call reach the
\* caller; it returns False or None instead.
C2_FailuresBecomeSentinels ==
    (last.op \in PublicOps /\ EngineFailed) => (~last.exc /\ Falsy(last.ret))

\* C3: create_index on a name the engine has an index for issues no create
\* request and leaves the engine as it was, and where it returns it returns
\* False; it returns True only after a create request that was answered.
C3_CreateExistingIsRefused ==
    last.op = "create_index" =>
        /\ last.ix.present =>
              /\ ~Requested("create")
              /\ last.unchanged
              /\ last.ret # True
              /\ (~last.exc => last.ret = False)
        /\ last.ret = True =>
              /\ Len(last.reqs) = 2
              /\ last.reqs[2] = [call |-> "create", index |-> last.args.index,
                                 arg |-> [settings |-> UserSettings,
                                          mappings |-> UserMappings]]
              /\ ~EngineFailed
C3_Witness ==
    /\ last.op = "create_index"
    /\ last.ix.present
    /\ last.ix.others > 0
    /\ last.ret = False

\* C4: delete_index on a name the engine has no index for issues no delete
\* request and leaves the engine as it was, and where it returns it returns
\* False; it returns False when the delete request raises or is answered
\* without acknowledgement; it returns True only when the index was there at
\* the check and the deletion was acknowledged.
C4_DeleteOutcomes ==
    last.op = "delete_index" =>
        /\ ~last.ix.present =>
              /\ ~Requested("delete")
              /\ last.unchanged
              /\ (~last.exc => last.ret = False)
        /\ (Requested("delete") /\ EngineFailed) => last.ret = False
        /\ (AnsweredAt(2) /\ ~last.answers[2].acknowledged) => last.ret = False
        /\ last.ret = True =>
              /\ last.ix.present
              /\ AnsweredAt(2)
              /\ last.answers[1] = TRUE
              /\ last.reqs[2] = [call |-> "delete", index |-> last.args.index,
                                 arg |-> EmptyDict]
              /\ last.answers[2].acknowledged
C4_Witness ==
    /\ last.op = "delete_index"
    /\ AnsweredAt(2)
    /\ ~last.answers[2].acknowledged
    /\ last.ret = False

\* C7: setup on an engine that has the default index issues no create request
\* and leaves the engine as it was, and where it returns it returns True (so
\* does every further call while the index stays); on an engine without it,
\* the only create request setup issues asks for 'data' with 2 shards, 2
\* replicas and the mapping {id: long, timestamp: date}, and setup issues it
\* unless an existence check raises; after setup returned True the engine has
\* the index.
C7_SetupIdempotent ==
    last.op = "setup" =>
        /\ last.ix.present =>
              /\ ~Requested("create")
              /\ last.unchanged
              /\ (~last.exc => last.ret = True)
        /\ (~last.ix.present /\ ~last.exc) =>
              /\ Len(last.reqs) = 3
              /\ last.reqs[3] = [call |-> "create", index |-> "data",
                                 arg |-> [settings |-> SetupSettings,
                                          mappings |-> SetupMappings]]
        /\ last.ret = True =>
              /\ idx["data"].present
              /\ (~last.ix.present =>
                    /\ idx["data"].settings =
                         [number_of_shards |-> 2, number_of_replicas |-> 2]
                    /\ idx["data"].mappings.properties.id.type = "long"
                    /\ idx["data"].mappings.properties.timestamp.type = "date")
C7_Witness ==
    /\ last.op = "setup"
    /\ last.ix.present
    /\ last.ret = True
    /\ idx["data"].settings = UserSettings

\* C8: the destructor calls close exactly once when the ping it makes is
\* answered True and not at all otherwise; never on a client whose handle was
\* never made, and never twice.
C8_CloseOnceIfLive ==
    last.op = "__del__" =>
        LET live == /\ AnsweredAt(1)
                    /\ last.reqs[1].call = "ping"
                    /\ last.answers[1] = TRUE
        IN  /\ Calls("close") = (IF live THEN 1 ELSE 0)
            /\ (last.had # "set" => Calls("close") = 0)
            /\ Calls("close") <= 1
C8_Witness ==
    /\ last.op = "__del__"
    /\ last.had = "set"
    /\ Calls("close") = 1

----------------------------------------------------------------------------
\* The index request of the last write.
WriteSent == Requested("index")
SentBody == last.reqs[1].arg.body

\* C5: the document put sends goes to 'data', carries as timestamp the
\* millisecond that holds the clock reading of the call, and has every other
\* field of the document passed in, unchanged, and no further field.
C5_PutStampsWriteTime ==
    (last.op = "put" /\ WriteSent) =>
        /\ last.reqs[1].index = "data"
        /\ DOMAIN SentBody = DOMAIN last.args.body \cup {"timestamp"}
        /\ SentBody["timestamp"] * 1000 <= last.clock
        /\ last.clock < (SentBody["timestamp"] + 1) * 1000
        /\ \A k \in DOMAIN last.args.body \ {"timestamp"} :
              SentBody[k] = last.args.body[k]
C5_Witness ==
    /\ last.op = "put"
    /\ WriteSent
    /\ last.args.body = Doc2
    /\ last.clock = LateClock
    /\ last.ret = True

\* C6 as stated: every document a write operation of the client sends,
\* through store as through put, has a timestamp field.
C6_EveryWriteStamped ==
    (last.op \in {"store", "put"} /\ WriteSent) =>
        "timestamp" \in DOMAIN SentBody

\* C6 as amended: every document sent through put has a timestamp field;
\* store sends the document as it was passed in, so a document sent through
\* store has a timestamp field exactly when the caller gave it one.
C6_OnlyPutStamps ==
    /\ (last.op = "put" /\ WriteSent) => "timestamp" \in DOMAIN SentBody
    /\ (last.op = "store" /\ WriteSent) =>
          /\ SentBody = last.args.body
          /\ last.reqs[1].index = last.args.index
C6_Witness ==
    /\ last.op = "store"
    /\ WriteSent
    /\ "timestamp" \notin DOMAIN SentBody
    /\ last.ret = True

\* C9: query issues no request but one search, of the index passed in, with
\* the body {query: <the query passed in>} and the size passed in, and issues
\* it whenever the client has its handle; it never raises; it returns the
\* engine's whole answer when raw, the answer's hit list when not raw, and
\* None when the search raised or (not raw) the answer has no hit list.
C9_QueryContract ==
    last.op = "query" =>
        /\ ~last.exc
        /\ Len(last.reqs) = (IF last.had = "set" THEN 1 ELSE 0)
        /\ \A i \in 1..Len(last.reqs) :
              last.reqs[i] =
                  [call |-> "search", index |-> last.args.index,
                   arg |-> [body |-> [query |-> last.args.query],
                            size |-> last.args.size]]
        /\ IF AnsweredAt(1)
           THEN IF last.args.raw THEN last.ret = PyDict(last.answers[1])
                ELSE IF last.answers[1].wellformed
                THEN last.ret = PyList(last.answers[1].hits)
                ELSE last.ret = None
           ELSE last.ret = None
C9_Witness ==
    /\ last.op = "query"
    /\ ~last.args.raw
    /\ last.args.size = 1
    /\ last.ret = PyList({Doc1})

\* A search that could show the round trip: match-all, of default size, and
\* answered with a hit list.
RoundTripSearch ==
    /\ \/ last.op = "get"
       \/ last.op = "query" /\ last.args.size = DefaultSize
    /\ last.args.query = MatchAll
    /\ last.ret.t = "list"

\* C10 as stated: every document stored with True into an index that was
\* not emptied or deleted since is among the hits of a later match-all search
\* of that index with the default size.
C10_RoundTrip ==
    RoundTripSearch => \A d \in written[last.args.index] : d \in last.ret.v

\* C10 as amended: it is, provided the engine has refreshed the index since
\* the write (the document is searchable) and the index holds no more than
\* the default size of documents.
C10_RoundTripOnceSearchable ==
    RoundTripSearch =>
        \A d \in written[last.args.index] :
            (/\ d \in last.ix.docs
             /\ Cardinality(last.ix.docs) + last.ix.others <= DefaultSize)
            => d \in last.ret.v
C10_Witness ==
    /\ RoundTripSearch
    /\ last.op = "get"
    /\ written["data"] # {}
    /\ written["data"] \subseteq last.ret.v

====
